---- MODULE Spec2Model ----
(***************************************************************************)
(* Model of power_rank_calculator.py: the scoring engine                   *)
(* (percent_to_points, compute_points, compute_power_rank) and the         *)
(* recommendation engine (needed_to_target, calculate_needed_by_date).     *)
(*                                                                         *)
(* Python floats are IEEE-754 binary64.  A float is modelled exactly, as   *)
(* a record [m, e] standing for m * 2^e where m is a natural number of at  *)
(* most MantBits bits, held as a little-endian sequence of limbs in base   *)
(* LimbBase (TLC's integers are 32 bits wide).  Every float operation of   *)
(* the code is the exact operation followed by round-to-nearest-even.      *)
(* Points are held in hundredths of a point (the code rounds them to two   *)
(* decimals), the htp reading in halves of a percent.                      *)
(***************************************************************************)
EXTENDS Integers, Sequences, FiniteSets, TLC

\* An optional value: None, or Some(v) holding v.
None == <<>>
Some(v) == <<v>>
Val(o) == o[1]
Optional(S) == {None} \cup {Some(v) : v \in S}

\* The outcome of a call: a returned value, or the exception raised.
Returned(v) == [exc |-> "", value |-> v]
Raised(e) == [exc |-> e, value |-> 0]

Max(a, b) == IF a >= b THEN a ELSE b

(***************************************************************************)
(* Natural numbers of arbitrary size.                                      *)
(***************************************************************************)
LimbBits == 14
LimbBase == 2^LimbBits

RECURSIVE Pow2(_)
Pow2(k) == IF k = 0 THEN 1 ELSE 2 * Pow2(k - 1)

RECURSIVE BigNorm(_)
BigNorm(a) ==
    IF a = <<>> THEN <<>>
    ELSE IF a[Len(a)] = 0 THEN BigNorm(SubSeq(a, 1, Len(a) - 1))
    ELSE a

RECURSIVE BigFromNat(_)
BigFromNat(n) == IF n = 0 THEN <<>> ELSE <<n % LimbBase>> \o BigFromNat(n \div LimbBase)

RECURSIVE BigToNat(_)
BigToNat(a) == IF a = <<>> THEN 0 ELSE a[1] + LimbBase * BigToNat(Tail(a))

RECURSIVE BigMulSmall(_, _, _)
BigMulSmall(a, k, carry) ==
    IF a = <<>> THEN BigFromNat(carry)
    ELSE LET t == a[1] * k + carry
         IN  <<t % LimbBase>> \o BigMulSmall(Tail(a), k, t \div LimbBase)

RECURSIVE BigAdd(_, _, _)
BigAdd(a, b, carry) ==
    IF a = <<>> /\ b = <<>> THEN BigFromNat(carry)
    ELSE LET x == IF a = <<>> THEN 0 ELSE a[1]
             y == IF b = <<>> THEN 0 ELSE b[1]
             t == x + y + carry
         IN  <<t % LimbBase>>
               \o BigAdd(IF a = <<>> THEN a ELSE Tail(a),
                         IF b = <<>> THEN b ELSE Tail(b), t \div LimbBase)

RECURSIVE BigMul(_, _)
BigMul(a, b) ==
    IF a = <<>> \/ b = <<>> THEN <<>>
    ELSE BigNorm(BigAdd(BigMulSmall(a, b[1], 0), <<0>> \o BigMul(a, Tail(b)), 0))

\* Quotient and remainder of a by the small number d, from the top limb down.
RECURSIVE BigDivSmall(_, _)
BigDivSmall(a, d) ==
    IF a = <<>> THEN [q |-> <<>>, r |-> 0]
    ELSE LET hi == BigDivSmall(Tail(a), d)
             t  == hi.r * LimbBase + a[1]
         IN  [q |-> BigNorm(<<t \div d>> \o hi.q), r |-> t % d]

Zeros(n) == [i \in 1..n |-> 0]

BigShl(a, k) ==
    IF a = <<>> THEN <<>>
    ELSE Zeros(k \div LimbBits) \o BigMulSmall(a, Pow2(k % LimbBits), 0)

BigDrop(a, n) == IF n >= Len(a) THEN <<>> ELSE SubSeq(a, n + 1, Len(a))

BigShr(a, k) == BigDivSmall(BigDrop(a, k \div LimbBits), Pow2(k % LimbBits)).q

\* Whether one of the k lowest bits of a is set.
LowBitsSet(a, k) ==
    \/ \E i \in 1..(k \div LimbBits) : i <= Len(a) /\ a[i] # 0
    \/ /\ (k \div LimbBits) + 1 <= Len(a)
       /\ a[(k \div LimbBits) + 1] % Pow2(k % LimbBits) # 0

BigOdd(a) == a # <<>> /\ a[1] % 2 = 1

RECURSIVE NatBitLen(_)
NatBitLen(n) == IF n = 0 THEN 0 ELSE 1 + NatBitLen(n \div 2)

BigBitLen(a) == IF a = <<>> THEN 0 ELSE (Len(a) - 1) * LimbBits + NatBitLen(a[Len(a)])

\* a / 2^k rounded to the nearest integer, ties to even; sticky says that the
\* exact value lies strictly above a (digits lost by an earlier division).
BigRoundShr(a, k, sticky) ==
    IF k = 0 THEN a
    ELSE LET q    == BigShr(a, k)
             half == BigOdd(BigShr(a, k - 1))
             rest == sticky \/ LowBitsSet(a, k - 1)
         IN  IF half /\ (rest \/ BigOdd(q)) THEN BigNorm(BigAdd(q, <<1>>, 0)) ELSE q

(***************************************************************************)
(* binary64 arithmetic.                                                    *)
(***************************************************************************)
MantBits == 53

FZero == [m |-> <<>>, e |-> 0]

\* The float nearest to m * 2^e (+ a little, when sticky).
FRound(m, e, sticky) ==
    IF m = <<>> THEN FZero
    ELSE LET k == Max(0, BigBitLen(m) - MantBits)
         IN  [m |-> BigRoundShr(m, k, sticky), e |-> e + k]

FFromNat(n) == FRound(BigFromNat(n), 0, FALSE)

\* x / float(d) for a float x >= 0 and a natural d > 0, correctly rounded.
FDivBy(x, d) ==
    IF x.m = <<>> THEN FZero
    ELSE LET s  == MantBits + NatBitLen(d)
             qr == BigDivSmall(BigShl(x.m, s), d)
         IN  FRound(qr.q, x.e - s, qr.r # 0)

\* float(a) / float(b) for naturals a and b > 0; also the float that the
\* decimal literal a/b denotes (0.9 is FDivNat(9, 10)).
FDivNat(a, b) == FDivBy(FFromNat(a), b)

FMul(x, y) ==
    IF x.m = <<>> \/ y.m = <<>> THEN FZero
    ELSE FRound(BigMul(x.m, y.m), x.e + y.e, FALSE)

FFloor(x) == IF x.e >= 0 THEN BigToNat(BigShl(x.m, x.e)) ELSE BigToNat(BigShr(x.m, 0 - x.e))

\* math.ceil(x)
FCeil(x) ==
    IF x.e >= 0 THEN BigToNat(BigShl(x.m, x.e))
    ELSE BigToNat(BigShr(x.m, 0 - x.e)) + (IF LowBitsSet(x.m, 0 - x.e) THEN 1 ELSE 0)

\* x >= n and x < n for a float x >= 0 and an integer n.
FGeInt(x, n) == FFloor(x) >= n
FLtInt(x, n) == FFloor(x) < n

\* round(x, 2) in hundredths: the exact value of x rounded half-even.
FRound2(x) ==
    LET c == BigMulSmall(x.m, 100, 0)
    IN  IF x.e >= 0 THEN BigToNat(BigShl(c, x.e))
        ELSE BigToNat(BigRoundShr(c, 0 - x.e, FALSE))

\* The mantissas of x and y over their common (smaller) exponent.
FAlign(x, y) ==
    LET e == IF x.e <= y.e THEN x.e ELSE y.e
    IN  [a |-> BigShl(x.m, x.e - e), b |-> BigShl(y.m, y.e - e), e |-> e]

RECURSIVE BigLess(_, _)
BigLess(a, b) ==
    IF Len(a) # Len(b) THEN Len(a) < Len(b)
    ELSE IF a = <<>> THEN FALSE
    ELSE IF a[Len(a)] # b[Len(b)] THEN a[Len(a)] < b[Len(b)]
    ELSE BigLess(SubSeq(a, 1, Len(a) - 1), SubSeq(b, 1, Len(b) - 1))

\* a - b for a >= b.
RECURSIVE BigSub(_, _, _)
BigSub(a, b, borrow) ==
    IF a = <<>> THEN <<>>
    ELSE LET y == (IF b = <<>> THEN 0 ELSE b[1]) + borrow
             t == IF a[1] >= y THEN a[1] - y ELSE a[1] + LimbBase - y
         IN  <<t>> \o BigSub(Tail(a), IF b = <<>> THEN b ELSE Tail(b),
                             IF a[1] >= y THEN 0 ELSE 1)

FLess(x, y) == LET al == FAlign(x, y) IN BigLess(BigNorm(al.a), BigNorm(al.b))

FAdd(x, y) ==
    IF x.m = <<>> THEN y
    ELSE IF y.m = <<>> THEN x
    ELSE LET al == FAlign(x, y) IN FRound(BigNorm(BigAdd(al.a, al.b, 0)), al.e, FALSE)

\* x - y for x >= y >= 0.
FSub(x, y) ==
    IF y.m = <<>> THEN x
    ELSE LET al == FAlign(x, y) IN FRound(BigNorm(BigSub(al.a, al.b, 0)), al.e, FALSE)

\* x / 2
FHalf(x) == IF x.m = <<>> THEN FZero ELSE [m |-> x.m, e |-> x.e - 1]

\* The float that holds a value of h hundredths (what round(., 2) returns).
FHundredths(h) == FDivNat(h, 100)

(***************************************************************************)
(* Configuration.                                                          *)
(***************************************************************************)
THRESHOLDS == <<125, 100, 90, 80, 70, 60, 50, 40, 30, 20, 0>>

\* The keys of METRIC_MAX_POINTS in declaration (dict) order.
MetricOrder ==
    <<"opps_pct", "ppvga_pct", "internet_pct", "accessories_pct", "protection_pct",
      "rate_plan_pct", "next_up_pct", "event_opps_pct", "plus1_pct", "csat_pct">>

Metrics == {MetricOrder[i] : i \in 1..Len(MetricOrder)}

METRIC_MAX_POINTS ==
    [m \in Metrics |->
        CASE m = "opps_pct" -> 10
          [] m = "ppvga_pct" -> 30
          [] m = "internet_pct" -> 20
          [] m = "accessories_pct" -> 10
          [] OTHER -> 5]

\* Mutant of DEFAULT_MULTIPLIERS: the multipliers of 90 and 60 exchanged.
DEFAULT_MULTIPLIERS_Exchanged ==
    (125 :> 10) @@ (100 :> 10) @@ (90 :> 6) @@ (80 :> 8) @@ (70 :> 7) @@ (60 :> 9)
      @@ (50 :> 5) @@ (40 :> 4) @@ (30 :> 3) @@ (20 :> 2) @@ (0 :> 0)

\* Multipliers in tenths: 9 stands for the literal 0.9.
DEFAULT_MULTIPLIERS ==
    (125 :> 10) @@ (100 :> 10) @@ (90 :> 9) @@ (80 :> 8) @@ (70 :> 7) @@ (60 :> 6)
      @@ (50 :> 5) @@ (40 :> 4) @@ (30 :> 3) @@ (20 :> 2) @@ (0 :> 0)

\* Mutant of FIVE_POINT_MULTIPLIERS: a bonus multiplier of 1.2 from 125 on.
FIVE_POINT_MULTIPLIERS_Bonus ==
    (125 :> 12) @@ (100 :> 10) @@ (90 :> 10) @@ (80 :> 10) @@ (70 :> 8) @@ (60 :> 6)
      @@ (50 :> 4) @@ (40 :> 2) @@ (30 :> 0) @@ (20 :> 0) @@ (0 :> 0)

FIVE_POINT_MULTIPLIERS ==
    (125 :> 10) @@ (100 :> 10) @@ (90 :> 10) @@ (80 :> 10) @@ (70 :> 8) @@ (60 :> 6)
      @@ (50 :> 4) @@ (40 :> 2) @@ (30 :> 0) @@ (20 :> 0) @@ (0 :> 0)

METRIC_RULES ==
    [m \in {"protection_pct", "rate_plan_pct", "next_up_pct", "event_opps_pct",
            "plus1_pct", "csat_pct"} |->
        [multipliers |-> FIVE_POINT_MULTIPLIERS, allow_below_50 |-> FALSE]]

\* rules.get("multipliers", DEFAULT_MULTIPLIERS), rules.get("allow_below_50", False)
RuleMultipliers(metric_name) ==
    IF metric_name \in DOMAIN METRIC_RULES THEN METRIC_RULES[metric_name].multipliers
    ELSE DEFAULT_MULTIPLIERS

RuleAllowBelow50(metric_name) ==
    IF metric_name \in DOMAIN METRIC_RULES THEN METRIC_RULES[metric_name].allow_below_50
    ELSE FALSE

\* metric.replace("_pct", "_points")
PointsKey(metric) ==
    CASE metric = "opps_pct" -> "opps_points"
      [] metric = "ppvga_pct" -> "ppvga_points"
      [] metric = "internet_pct" -> "internet_points"
      [] metric = "accessories_pct" -> "accessories_points"
      [] metric = "protection_pct" -> "protection_points"
      [] metric = "rate_plan_pct" -> "rate_plan_points"
      [] metric = "next_up_pct" -> "next_up_points"
      [] metric = "event_opps_pct" -> "event_opps_points"
      [] metric = "plus1_pct" -> "plus1_points"
      [] metric = "csat_pct" -> "csat_points"

PointsKeys == {PointsKey(m) : m \in Metrics}

MetricOfKey(k) == CHOOSE m \in Metrics : PointsKey(m) = k

(***************************************************************************)
(* Scoring engine.                                                         *)
(***************************************************************************)
\* round(max_points * multiplier, 2) at the first threshold <= percent.
RECURSIVE ScanThresholds(_, _, _, _)
ScanThresholds(i, percent, max_points, multipliers) ==
    IF i > Len(THRESHOLDS) THEN 0
    ELSE IF FGeInt(percent, THRESHOLDS[i])
         THEN LET multiplier ==
                      IF THRESHOLDS[i] \in DOMAIN multipliers
                      THEN FDivNat(multipliers[THRESHOLDS[i]], 10) ELSE FZero
              IN  FRound2(FMul(FFromNat(max_points), multiplier))
         ELSE ScanThresholds(i + 1, percent, max_points, multipliers)

\* percent is None or Some float; the value returned is in hundredths of a point.
percent_to_points(metric_name, percent) ==
    IF percent = None THEN Returned(0)
    ELSE IF metric_name \notin DOMAIN METRIC_MAX_POINTS THEN Raised("KeyError")
    ELSE IF FLtInt(Val(percent), 50) /\ ~RuleAllowBelow50(metric_name) THEN Returned(0)
    ELSE Returned(ScanThresholds(1, Val(percent), METRIC_MAX_POINTS[metric_name],
                                 RuleMultipliers(metric_name)))

\* The cutoff 6.5 of the HTP rule.
HtpCutoff == FDivNat(13, 2)

\* Mutant of compute_points: the HTP rule fires at the cutoff too (<= 6.5).
compute_points_AtCutoff(data) ==
    LET points    == [k \in PointsKeys |->
                         percent_to_points(MetricOfKey(k), data[MetricOfKey(k)]).value]
        htp_value == data["htp_pct"]
    IN  IF htp_value # None /\ ~FLess(HtpCutoff, Val(htp_value))
        THEN [points EXCEPT !["protection_points"] = FRound2(FHalf(FHundredths(@)))]
        ELSE points

\* data maps every metric and "htp_pct" to None or Some float.
compute_points(data) ==
    LET points    == [k \in PointsKeys |->
                         percent_to_points(MetricOfKey(k), data[MetricOfKey(k)]).value]
        htp_value == data["htp_pct"]
    IN  IF htp_value # None /\ FLess(Val(htp_value), HtpCutoff)
        THEN [points EXCEPT !["protection_points"] = FRound2(FHalf(FHundredths(@)))]
        ELSE points

\* sum(points_dict.values()), in dict order, starting from 0.
RECURSIVE SumPoints(_, _)
SumPoints(points_dict, i) ==
    IF i = 0 THEN FZero
    ELSE FAdd(SumPoints(points_dict, i - 1), FHundredths(points_dict[PointsKey(MetricOrder[i])]))

\* (total_points, power_rank), both in hundredths.
compute_power_rank(points_dict) ==
    LET total_points == FRound2(SumPoints(points_dict, Len(MetricOrder)))
        power_rank   == FRound2(FMul(FDivBy(FHundredths(total_points), 100), FFromNat(10)))
    IN  <<total_points, power_rank>>

(***************************************************************************)
(* Recommendation engine.                                                  *)
(***************************************************************************)
\* math.ceil(x - c) for a float x >= 0 and a natural c.
CeilOfDifference(x, c) ==
    IF FLess(x, FFromNat(c)) THEN 0 - FFloor(FSub(FFromNat(c), x))
    ELSE FCeil(FSub(x, FFromNat(c)))

\* Mutant of needed_to_target: the guard lets days_in_month = 0 through, and
\* the division raises.
needed_to_target_ZeroDays(current_value, goal, day_of_month, days_in_month, target_pct) ==
    IF days_in_month < 0 THEN Raised("ValueError")
    ELSE IF days_in_month = 0 THEN Raised("ZeroDivisionError")
    ELSE LET daily_target    == FDivNat(goal, days_in_month)
             needed_by_today == FMul(FMul(daily_target, FFromNat(day_of_month)),
                                     FDivBy(FFromNat(target_pct), 100))
         IN  Returned(Max(0, CeilOfDifference(needed_by_today, current_value)))

needed_to_target(current_value, goal, day_of_month, days_in_month, target_pct) ==
    IF days_in_month <= 0 THEN Raised("ValueError")
    ELSE LET daily_target    == FDivNat(goal, days_in_month)
             needed_by_today == FMul(FMul(daily_target, FFromNat(day_of_month)),
                                     FDivBy(FFromNat(target_pct), 100))
         IN  Returned(Max(0, CeilOfDifference(needed_by_today, current_value)))

\* Some first threshold of the scan that is neither <= current_percent nor
\* below 50 without permission; None when the scan ends without one.
RECURSIVE NextThreshold(_, _, _)
NextThreshold(i, current_percent, allow_below_50) ==
    IF i > Len(THRESHOLDS) THEN None
    ELSE IF FGeInt(current_percent, THRESHOLDS[i])
         THEN NextThreshold(i + 1, current_percent, allow_below_50)
    ELSE IF THRESHOLDS[i] < 50 /\ ~allow_below_50
         THEN NextThreshold(i + 1, current_percent, allow_below_50)
    ELSE Some(THRESHOLDS[i])

\* current.get(metric, 0.0), for current.get(metric) given as an optional.
CurrentValue(current) == IF current = None THEN 0 ELSE Val(current)

\* (current_value / goal_value) * 100 if goal_value else 0.0
CurrentPercent(current_value, goal_value) ==
    IF goal_value # 0 THEN FMul(FDivNat(current_value, goal_value), FFromNat(100))
    ELSE FZero

\* round(max(0.0, next_points - current_metric_points), 2), in hundredths.
PointGain(next_points, current_metric_points) ==
    LET n == FHundredths(next_points)
        c == FHundredths(current_metric_points)
    IN  IF FLess(n, c) THEN 0 ELSE FRound2(FSub(n, c))

\* The end of a pass of the loop: needed_to_target raised, or the entry is
\* appended.
AppendEntry(metric, current_percent, next_threshold, point_gain, required_more) ==
    IF required_more.exc # "" THEN [kind |-> "raise", exc |-> required_more.exc]
    ELSE [kind |-> "append",
          item |-> [metric               |-> metric,
                    current_percent      |-> FRound2(current_percent),
                    next_threshold       |-> next_threshold,
                    point_gain           |-> point_gain,
                    needed_more_by_today |-> required_more.value]]

\* Mutant of WithPointGain: only a negative point_gain is skipped.
WithPointGain_ZeroKept(metric, current_value, goal_value, current_percent, next_threshold, point_gain, day_of_month, days_in_month) ==
    IF point_gain < 0 THEN [kind |-> "continue"]
    ELSE AppendEntry(metric, current_percent, next_threshold, point_gain,
                     needed_to_target(current_value, goal_value, day_of_month,
                                      days_in_month, next_threshold))

\* The pass from the test of point_gain on.
WithPointGain(metric, current_value, goal_value, current_percent, next_threshold, point_gain, day_of_month, days_in_month) ==
    IF point_gain <= 0 THEN [kind |-> "continue"]
    ELSE AppendEntry(metric, current_percent, next_threshold, point_gain,
                     needed_to_target(current_value, goal_value, day_of_month,
                                      days_in_month, next_threshold))

\* The pass from the test of next_threshold (None or Some threshold) on.
WithNextThreshold(metric, current_value, goal_value, current_percent, next_threshold, day_of_month, days_in_month) ==
    IF next_threshold = None THEN [kind |-> "continue"]
    ELSE WithPointGain(metric, current_value, goal_value, current_percent,
                       Val(next_threshold),
                       PointGain(percent_to_points(metric,
                                     Some(FFromNat(Val(next_threshold)))).value,
                                 percent_to_points(metric, Some(current_percent)).value),
                       day_of_month, days_in_month)

\* The pass once current_percent is known.
WithCurrentPercent(metric, current_value, goal_value, current_percent, day_of_month, days_in_month) ==
    WithNextThreshold(metric, current_value, goal_value, current_percent,
                      NextThreshold(1, current_percent, RuleAllowBelow50(metric)),
                      day_of_month, days_in_month)

\* Mutant of LoopBody: a missing goal counts as 0 instead of skipping the metric.
LoopBody_GoalDefaulted(metric, goal, current, day_of_month, days_in_month) ==
    WithCurrentPercent(metric, CurrentValue(current), IF goal = None THEN 0 ELSE Val(goal),
                       IF goal = None THEN FZero
                       ELSE CurrentPercent(CurrentValue(current), Val(goal)),
                       day_of_month, days_in_month)

\* One pass of the loop over METRIC_MAX_POINTS, for goals.get(metric) and
\* current.get(metric) given as optionals: the metric is skipped (continue),
\* needed_to_target raises, or an entry is appended.
LoopBody(metric, goal, current, day_of_month, days_in_month) ==
    IF goal = None THEN [kind |-> "continue"]
    ELSE WithCurrentPercent(metric, CurrentValue(current), Val(goal),
                            CurrentPercent(CurrentValue(current), Val(goal)),
                            day_of_month, days_in_month)

\* Arguments of calculate_needed_by_date: only the first MaxPlanMetrics
\* metrics have a goal or a current value, one of PlanEntries (goal, current);
\* PlanDates are (day_of_month, days_in_month).
MaxPlanMetrics == 6
PlanGoals == {10}
PlanCurrents == {5, 7, 10, 13}
PlanEntries ==
    {<<None, Some(7)>>, <<Some(10), None>>, <<Some(10), Some(5)>>, <<Some(10), Some(7)>>,
     <<Some(10), Some(10)>>, <<Some(10), Some(13)>>}
PlanDates == {<<3, 5>>, <<3, 0>>}
PlanRanks == {9}

\* LoopBody over the arguments that the calls hand it, each evaluated once.
LoopBodyMemo ==
    [metric \in Metrics, goal \in Optional(PlanGoals), current \in Optional(PlanCurrents),
     date \in PlanDates |-> LoopBody(metric, goal, current, date[1], date[2])]

\* The list after one more pass, or the exception that ended the loop.
AfterPass(before, pass) ==
    IF before.exc # "" THEN before
    ELSE IF pass.kind = "continue" THEN before
    ELSE IF pass.kind = "raise" THEN Raised(pass.exc)
    ELSE Returned(Append(before.value, pass.item))

\* The outcome of the loop over the first i metrics: the recommendations
\* list so far, or the exception that ended it.
RECURSIVE Recommendations(_, _, _, _, _)
Recommendations(i, goals, current, day_of_month, days_in_month) ==
    IF i = 0 THEN Returned(<<>>)
    ELSE AfterPass(Recommendations(i - 1, goals, current, day_of_month, days_in_month),
                   LoopBodyMemo[MetricOrder[i], goals[MetricOrder[i]],
                                current[MetricOrder[i]], <<day_of_month, days_in_month>>])

\* Mutant of InsertByGain: item goes before the entries of equal point_gain.
RECURSIVE InsertByGain_TiesFirst(_, _)
InsertByGain_TiesFirst(sorted, item) ==
    IF sorted = <<>> THEN <<item>>
    ELSE IF Head(sorted).point_gain > item.point_gain
         THEN <<Head(sorted)>> \o InsertByGain_TiesFirst(Tail(sorted), item)
    ELSE <<item>> \o sorted

\* item goes behind every entry whose point_gain is >= its own.
RECURSIVE InsertByGain(_, _)
InsertByGain(sorted, item) ==
    IF sorted = <<>> THEN <<item>>
    ELSE IF Head(sorted).point_gain >= item.point_gain
         THEN <<Head(sorted)>> \o InsertByGain(Tail(sorted), item)
    ELSE <<item>> \o sorted

\* Mutant of SortByPointGain: reverse=True left out, the sort ascends.
RECURSIVE SortByPointGain_Ascending(_)
SortByPointGain_Ascending(items) ==
    IF items = <<>> THEN <<>>
    ELSE LET rest == SortByPointGain_Ascending(SubSeq(items, 1, Len(items) - 1))
             item == items[Len(items)]
             k    == Cardinality({i \in 1..Len(rest) : rest[i].point_gain <= item.point_gain})
         IN  SubSeq(rest, 1, k) \o <<item>> \o SubSeq(rest, k + 1, Len(rest))

\* list.sort(key=point_gain, reverse=True): descending and stable.
RECURSIVE SortByPointGain(_)
SortByPointGain(items) ==
    IF items = <<>> THEN <<>>
    ELSE InsertByGain(SortByPointGain(SubSeq(items, 1, Len(items) - 1)), items[Len(items)])

\* Record(data={**current}, date="", errors=[]).data with floats for numbers.
CurrentRecordData(current) ==
    [k \in Metrics \cup {"htp_pct"} |->
        IF k \in DOMAIN current /\ current[k] # None THEN Some(FFromNat(Val(current[k])))
        ELSE None]

\* max(0.0, round(target_points - current_total, 2)), in hundredths.
Shortfall(target_points, current_total) ==
    IF FLess(target_points, current_total) THEN 0
    ELSE FRound2(FSub(target_points, current_total))

\* The dict returned, unless the loop raised.
PlanResult(target_rank, target_points, current_total, recommendations) ==
    IF recommendations.exc # "" THEN recommendations
    ELSE Returned([target_rank      |-> target_rank,
                   target_points    |-> FRound2(target_points),
                   current_points   |-> current_total,
                   shortfall_points |-> Shortfall(target_points, FHundredths(current_total)),
                   recommendations  |-> SortByPointGain(recommendations.value)])

\* (target_rank / 10.0) * 100.0
TargetPoints(target_rank) == FMul(FDivNat(target_rank, 10), FFromNat(100))

\* TargetPoints over the ranks that the calls hand it, each evaluated once.
TargetPointsMemo == [target_rank \in PlanRanks |-> TargetPoints(target_rank)]

calculate_needed_by_date(goals, current, day_of_month, days_in_month, target_rank) ==
    PlanResult(target_rank,
               TargetPointsMemo[target_rank],
               compute_power_rank(compute_points(CurrentRecordData(current)))[1],
               Recommendations(Len(MetricOrder), goals, current, day_of_month,
                               days_in_month))

(***************************************************************************)
(* Inputs of the calls.                                                    *)
(***************************************************************************)
\* Percentages handed to percent_to_points: 0, 0.5, 1, ... MaxPercent.
MaxPercent == 130
PercentInputs == 0..(2 * MaxPercent)
Halves(h) == IF h = None THEN None ELSE Some(FHalf(FFromNat(Val(h))))
Whole(n) == IF n = None THEN None ELSE Some(FFromNat(Val(n)))

\* Records handed to compute_points: at most MaxReadings metrics have a
\* reading, the htp reading is absent or one of HtpInputs (in halves).
MaxReadings == 2
RecordPercents == {45, 60, 70, 85, 130}
HtpInputs == {12, 13, 14}

\* Arguments of needed_to_target.
MaxCurrent == 4
MaxGoal == 4
MaxDay == 6
MaxDays == 5
TargetPcts == {THRESHOLDS[i] : i \in 1..Len(THRESHOLDS)}

(***************************************************************************)
(* The calls as a state machine: a call from idle leaves its arguments and *)
(* its result (or the exception raised) in the state; Return goes back.    *)
(***************************************************************************)
VARIABLES op, args, ret

vars == <<op, args, ret>>

Init == op = "idle" /\ args = <<>> /\ ret = Returned(0)

Call_percent_to_points ==
    /\ op = "idle"
    /\ \E metric_name \in Metrics \cup {"unknown_pct"}, h \in Optional(PercentInputs) :
          /\ op' = "percent_to_points"
          /\ args' = [metric_name |-> metric_name, percent_halves |-> h]
          /\ ret' = percent_to_points(metric_name, Halves(h))

Call_compute_points ==
    /\ op = "idle"
    /\ \E present \in {S \in SUBSET Metrics : Cardinality(S) <= MaxReadings} :
       \E reading \in [present -> RecordPercents], htp \in Optional(HtpInputs) :
          LET data == [m \in Metrics |-> IF m \in present THEN Some(reading[m]) ELSE None]
          IN  /\ op' = "compute_points"
              /\ args' = [data |-> data, htp_halves |-> htp]
              /\ ret' = Returned(compute_points([k \in Metrics \cup {"htp_pct"} |->
                            IF k = "htp_pct" THEN Halves(htp) ELSE Whole(data[k])]))

\* As the module's entry point does: the points just computed are totalled.
Call_compute_power_rank ==
    /\ op = "compute_points"
    /\ op' = "compute_power_rank"
    /\ args' = [points_dict |-> ret.value]
    /\ ret' = Returned(compute_power_rank(ret.value))

Call_needed_to_target ==
    /\ op = "idle"
    /\ \E current_value \in 0..MaxCurrent, goal \in 0..MaxGoal, day_of_month \in 0..MaxDay,
          days_in_month \in (-1)..MaxDays, target_pct \in TargetPcts :
          /\ op' = "needed_to_target"
          /\ args' = [current_value |-> current_value, goal |-> goal,
                      day_of_month |-> day_of_month, days_in_month |-> days_in_month,
                      target_pct |-> target_pct]
          /\ ret' = needed_to_target(current_value, goal, day_of_month, days_in_month,
                                     target_pct)

\* The (goal, current) of metric m when entry gives those of the first metrics.
PlanInput(entry, m) ==
    IF \E i \in DOMAIN entry : MetricOrder[i] = m
    THEN entry[CHOOSE i \in DOMAIN entry : MetricOrder[i] = m]
    ELSE <<None, None>>

Call_calculate_needed_by_date ==
    /\ op = "idle"
    /\ \E entry \in [1..MaxPlanMetrics -> PlanEntries], date \in PlanDates,
          target_rank \in PlanRanks :
          LET goals   == [m \in Metrics |-> PlanInput(entry, m)[1]]
              current == [m \in Metrics |-> PlanInput(entry, m)[2]]
          IN  /\ op' = "calculate_needed_by_date"
              /\ args' = [goals |-> goals, current |-> current, day_of_month |-> date[1],
                          days_in_month |-> date[2], target_rank |-> target_rank]
              /\ ret' = calculate_needed_by_date(goals, current, date[1], date[2],
                                                 target_rank)

Return ==
    /\ op # "idle"
    /\ op' = "idle" /\ args' = <<>> /\ ret' = Returned(0)

NextScoring == Call_percent_to_points \/ Call_compute_points \/ Call_compute_power_rank \/ Return
NextPacing == Call_needed_to_target \/ Return
NextPlan == Call_calculate_needed_by_date \/ Return

Next ==
    \/ Call_percent_to_points
    \/ Call_compute_points
    \/ Call_compute_power_rank
    \/ Call_needed_to_target
    \/ Call_calculate_needed_by_date
    \/ Return

Spec == Init /\ [][Next]_vars
SpecScoring == Init /\ [][NextScoring]_vars
SpecPacing == Init /\ [][NextPacing]_vars
SpecPlan == Init /\ [][NextPlan]_vars

(***************************************************************************)
(* Properties of the scoring functions, checked under SpecScoring.         *)
(***************************************************************************)
\* The maximum of a metric, in hundredths of a point.
MaxHundredths(metric) == 100 * METRIC_MAX_POINTS[metric]

\* percent_to_points over the known metrics and the percentages of
\* PercentInputs (in halves), in hundredths of a point.
ScoreTable ==
    [metric \in Metrics, h \in PercentInputs |->
        percent_to_points(metric, Halves(Some(h))).value]

\* The tier lookup of every metric of the record handed to compute_points.
Unadjusted(data) ==
    [k \in PointsKeys |-> percent_to_points(MetricOfKey(k), Whole(data[MetricOfKey(k)])).value]

\* The htp reading (in halves) is present and below 6.5.
HtpBelowCutoff(htp_halves) == htp_halves # None /\ Val(htp_halves) < 13

\* C4: for every known metric and every percentage, absent included,
\* percent_to_points returns a value from 0 to the metric's maximum; and every
\* entry of the points that compute_points returns, the halved protection
\* entry included, lies from 0 to its metric's maximum.
C4_PointsWithinMaximum ==
    /\ (op = "percent_to_points" /\ args.metric_name \in Metrics) =>
          /\ ret.exc = ""
          /\ 0 <= ret.value /\ ret.value <= MaxHundredths(args.metric_name)
    /\ op = "compute_points" =>
          \A k \in PointsKeys :
              0 <= ret.value[k] /\ ret.value[k] <= MaxHundredths(MetricOfKey(k))

\* A record with a metric at its maximum whose protection points were halved
\* to 2.50.
C4_Witness ==
    /\ op = "compute_points"
    /\ HtpBelowCutoff(args.htp_halves)
    /\ ret.value["protection_points"] = 250
    /\ \E k \in PointsKeys : ret.value[k] = MaxHundredths(MetricOfKey(k))

\* C5: for every known metric and percentages p1 <= p2, percent_to_points of
\* p1 is at most percent_to_points of p2.
C5_ScoreMonotone ==
    (op = "percent_to_points" /\ args.metric_name \in Metrics /\ args.percent_halves # None) =>
        \A h \in PercentInputs :
            h <= Val(args.percent_halves) => ScoreTable[args.metric_name, h] <= ret.value

\* A call at 70 percent that scores more than a lower percentage does and
\* less than the maximum.
C5_Witness ==
    /\ op = "percent_to_points"
    /\ args.metric_name = "opps_pct"
    /\ args.percent_halves = Some(140)
    /\ ret.value = 700
    /\ \E h \in PercentInputs : h < 140 /\ ScoreTable["opps_pct", h] = 600

\* C6: when the htp reading is present and below 6.5, the protection points
\* that compute_points returns are exactly half of the tier lookup's and all
\* other points are the tier lookup's; otherwise all points are the tier
\* lookup's.
C6_HtpHalvesProtectionOnce ==
    op = "compute_points" =>
        \A k \in PointsKeys :
            IF k = "protection_points" /\ HtpBelowCutoff(args.htp_halves)
            THEN 2 * ret.value[k] = Unadjusted(args.data)[k]
            ELSE ret.value[k] = Unadjusted(args.data)[k]

\* A record whose protection lookup gave 5.00 and whose htp of 6.0 halved it,
\* another metric keeping its points.
C6_Witness ==
    /\ op = "compute_points"
    /\ args.htp_halves = Some(12)
    /\ Unadjusted(args.data)["protection_points"] = 500
    /\ ret.value["protection_points"] = 250
    /\ \E k \in PointsKeys \ {"protection_points"} : ret.value[k] > 0

(***************************************************************************)
(* Properties of needed_to_target, checked under SpecPacing.               *)
(***************************************************************************)
\* max(0, ceil(goal / days_in_month * day_of_month * target_pct / 100
\* - current_value)) in exact arithmetic.
ExactNeeded(current_value, goal, day_of_month, days_in_month, target_pct) ==
    LET num == goal * day_of_month * target_pct - current_value * days_in_month * 100
        den == days_in_month * 100
    IN  IF num <= 0 THEN 0 ELSE (num + den - 1) \div den

\* C9: for days_in_month > 0, needed_to_target returns max(0, ceil(goal /
\* days_in_month * day_of_month * target_pct / 100 - current_value)), and so 0
\* whenever current_value meets the paced expectation.
C9_NeededIsExactCeiling ==
    (op = "needed_to_target" /\ args.days_in_month > 0) =>
        ret = Returned(ExactNeeded(args.current_value, args.goal, args.day_of_month,
                                   args.days_in_month, args.target_pct))

\* The call needed_to_target(3, 4, 3, 5, 125): 4/5*3*1.25 is 3 and the float
\* product is just above it, so 1 is returned where 0 is due.
C9_Witness ==
    /\ op = "needed_to_target"
    /\ args = [current_value |-> 3, goal |-> 4, day_of_month |-> 3, days_in_month |-> 5,
               target_pct |-> 125]
    /\ ExactNeeded(3, 4, 3, 5, 125) = 0
    /\ ret = Returned(1)

\* C10: needed_to_target raises ValueError, and returns nothing, exactly when
\* days_in_month <= 0.
C10_ValueErrorIffNoDays ==
    op = "needed_to_target" =>
        IF args.days_in_month <= 0 THEN ret = Raised("ValueError") ELSE ret.exc = ""

\* A call with days_in_month = 0 and otherwise ordinary arguments that raised.
C10_Witness ==
    /\ op = "needed_to_target"
    /\ args.days_in_month = 0
    /\ args.goal > 0 /\ args.day_of_month > 0
    /\ ret.exc = "ValueError"

(***************************************************************************)
(* Properties of calculate_needed_by_date, checked under SpecPlan.         *)
(***************************************************************************)
\* A call of calculate_needed_by_date has returned its dict.
PlanReturned == op = "calculate_needed_by_date" /\ ret.exc = ""

\* The place of a metric in the declaration order.
MetricIndex(metric) == CHOOSE i \in 1..Len(MetricOrder) : MetricOrder[i] = metric

\* The recommendations in the order the loop appended them.
Emitted ==
    Recommendations(Len(MetricOrder), args.goals, args.current, args.day_of_month,
                    args.days_in_month).value

PointGains(recs) == [i \in 1..Len(recs) |-> recs[i].point_gain]
MetricsOf(recs) == [i \in 1..Len(recs) |-> recs[i].metric]

Recommended(metric) ==
    \E i \in 1..Len(ret.value.recommendations) : ret.value.recommendations[i].metric = metric

\* The unrounded current percentage of a metric with goal and current entry.
EntryPercent ==
    [entry \in PlanEntries |->
        IF entry[1] = None THEN FZero
        ELSE CurrentPercent(CurrentValue(entry[2]), Val(entry[1]))]

PercentOf(metric) == EntryPercent[<<args.goals[metric], args.current[metric]>>]

\* percent_to_points at the current percentages and at the tier boundaries.
EntryScore ==
    [metric \in Metrics, entry \in PlanEntries |->
        percent_to_points(metric, Some(EntryPercent[entry])).value]

TierScore ==
    [metric \in Metrics, t \in TargetPcts |->
        percent_to_points(metric, Some(FFromNat(t))).value]

ScoreOf(metric) == EntryScore[metric, <<args.goals[metric], args.current[metric]>>]

\* The lowest boundary above the percentage that the gating admits, if any.
LowestBoundaryAbove(current_percent, allow_below_50) ==
    LET above == {t \in TargetPcts :
                     ~FGeInt(current_percent, t) /\ (t >= 50 \/ allow_below_50)}
    IN  IF above = {} THEN None
        ELSE Some(CHOOSE t \in above : \A u \in above : t <= u)

LowestBoundary ==
    [metric \in Metrics, entry \in PlanEntries |->
        LowestBoundaryAbove(EntryPercent[entry], RuleAllowBelow50(metric))]

ScannedBoundary ==
    [metric \in Metrics, entry \in PlanEntries |->
        NextThreshold(1, EntryPercent[entry], RuleAllowBelow50(metric))]

\* C1: the next tier of every recommendation is the lowest boundary above the
\* metric's current percentage that the gating admits, and a metric with a
\* goal and no such boundary has no recommendation.
C1_NextTierIsLowestAbove ==
    PlanReturned =>
        \A metric \in Metrics :
            args.goals[metric] # None =>
                LET lowest == LowestBoundary[metric, <<args.goals[metric], args.current[metric]>>]
                    recs   == ret.value.recommendations
                IN  /\ lowest = None => ~Recommended(metric)
                    /\ \A i \in 1..Len(recs) :
                          recs[i].metric = metric =>
                              lowest # None /\ recs[i].next_threshold = Val(lowest)

\* A plan for opps at 50 percent of its goal: the boundary recommended is
\* 125 where the lowest above 50 is 60.
C1_Witness ==
    /\ PlanReturned
    /\ args.goals["opps_pct"] = Some(10) /\ args.current["opps_pct"] = Some(5)
    /\ LowestBoundary["opps_pct", <<Some(10), Some(5)>>] = Some(60)
    /\ \E i \in 1..Len(ret.value.recommendations) :
          /\ ret.value.recommendations[i].metric = "opps_pct"
          /\ ret.value.recommendations[i].next_threshold = 125

\* recs is in descending order of point_gain with equal gains in declaration
\* order, and holds the entries of emitted, as many as there are.
SortedStablePermutationOf(recs, emitted) ==
    /\ \A i, j \in 1..Len(recs) :
          i < j =>
              \/ recs[i].point_gain > recs[j].point_gain
              \/ /\ recs[i].point_gain = recs[j].point_gain
                 /\ MetricIndex(recs[i].metric) < MetricIndex(recs[j].metric)
    /\ Len(recs) = Len(emitted)
    /\ \A i \in 1..Len(emitted) : \E j \in 1..Len(recs) : recs[j] = emitted[i]

\* Some entries of emitted are out of order, and some have equal gains.
OutOfOrderWithTie(emitted) ==
    /\ \E i, j \in 1..Len(emitted) : i < j /\ emitted[i].point_gain < emitted[j].point_gain
    /\ \E i, j \in 1..Len(emitted) : i < j /\ emitted[i].point_gain = emitted[j].point_gain
    /\ Len(emitted) >= 4

\* C2: the recommendations returned are in descending order of point_gain,
\* equal gains in declaration order of their metrics, and they are a
\* permutation of the recommendations the loop appended.
C2_SortedStablePermutation ==
    PlanReturned => SortedStablePermutationOf(ret.value.recommendations, Emitted)

\* A plan whose appended recommendations were out of order and held a tie.
C2_Witness == PlanReturned /\ OutOfOrderWithTie(Emitted)

\* The appended recommendations have the gains 3.0, 5.0, 5.0, 1.0.
GainsThreeFiveFiveOne == PlanReturned /\ PointGains(Emitted) = <<300, 500, 500, 100>>

\* C3 as stated: gains 3.0, 5.0, 5.0, 1.0 of the metrics A, B, C, D in
\* declaration order are returned in the order B, C, D, A.
C3_OrderBCDA ==
    GainsThreeFiveFiveOne =>
        MetricsOf(ret.value.recommendations) =
            <<Emitted[2].metric, Emitted[3].metric, Emitted[4].metric, Emitted[1].metric>>

\* C3: gains 3.0, 5.0, 5.0, 1.0 of the metrics A, B, C, D in declaration
\* order are returned in the order B, C, A, D, with B before C.
C3_OrderBCAD ==
    GainsThreeFiveFiveOne =>
        MetricsOf(ret.value.recommendations) =
            <<Emitted[2].metric, Emitted[3].metric, Emitted[1].metric, Emitted[4].metric>>

\* Such a plan: opps at 70 percent, accessories at 50, protection without a
\* current value, rate plan at 70.
C3_Witness ==
    /\ GainsThreeFiveFiveOne
    /\ MetricsOf(Emitted) = <<"opps_pct", "accessories_pct", "protection_pct", "rate_plan_pct">>

\* C7 as stated: every recommended metric has a current value and a goal.
C7_CurrentAndGoalDefined ==
    PlanReturned =>
        \A metric \in Metrics :
            Recommended(metric) => args.current[metric] # None /\ args.goals[metric] # None

\* C7: every recommended metric has a goal; one without a current value is
\* recommended from a current percentage of 0.
C7_GoalDefined ==
    PlanReturned =>
        \A i \in 1..Len(ret.value.recommendations) :
            LET rec == ret.value.recommendations[i]
            IN  /\ args.goals[rec.metric] # None
                /\ args.current[rec.metric] = None => rec.current_percent = 0

\* A plan that recommends a metric without a current value and leaves out a
\* metric that has a current value and no goal.
C7_Witness ==
    /\ PlanReturned
    /\ \E metric \in Metrics :
          Recommended(metric) /\ args.current[metric] = None /\ args.goals[metric] # None
    /\ \E metric \in Metrics :
          ~Recommended(metric) /\ args.current[metric] # None /\ args.goals[metric] = None

\* C8: every recommendation has a next_threshold above the metric's current
\* percentage and a point_gain > 0 that is percent_to_points of next_threshold
\* minus percent_to_points of the current percentage; a metric whose scanned
\* boundary scores no more than its current percentage is not recommended.
C8_StrictlyBetterTier ==
    PlanReturned =>
        /\ \A i \in 1..Len(ret.value.recommendations) :
              LET rec == ret.value.recommendations[i]
              IN  /\ ~FGeInt(PercentOf(rec.metric), rec.next_threshold)
                  /\ rec.point_gain > 0
                  /\ rec.point_gain = TierScore[rec.metric, rec.next_threshold]
                                        - ScoreOf(rec.metric)
        /\ \A metric \in Metrics :
              args.goals[metric] # None =>
                  LET next == ScannedBoundary[metric, <<args.goals[metric], args.current[metric]>>]
                  IN  (next # None /\ TierScore[metric, Val(next)] <= ScoreOf(metric))
                          => ~Recommended(metric)

\* A plan with a recommendation and with a metric at 100 percent left out
\* because the boundary above scores the same.
C8_Witness ==
    /\ PlanReturned
    /\ \E metric \in Metrics : Recommended(metric)
    /\ \E metric \in Metrics :
          /\ args.goals[metric] # None /\ args.current[metric] = Some(10)
          /\ ScannedBoundary[metric, <<args.goals[metric], args.current[metric]>>] # None
          /\ ~Recommended(metric)

====
